---- MODULE Spec2Model ----
(***************************************************************************)
(* Caching CLIP text encoders of nodes.py: CachingCLIPTextEncode (one text *)
(* field) and CachingCLIPTextEncodeFlux (clip_l + t5xxl + guidance).       *)
(*                                                                         *)
(* Python values are modelled as follows.                                  *)
(*   str          a sequence of one-character strings                      *)
(*   None / x     None is <<>> and a present value x is <<x>> (Some(x))    *)
(*   dict         a sequence of [key, value] records in insertion order    *)
(*   tensor/dict  returned by the collaborator: a record that carries the  *)
(*                identity of the object (obj, the number of the           *)
(*                collaborator call that made it) and what it was computed *)
(*                from (model, tokens)                                     *)
(*   sha256       a collision-free digest: a record wrapping the bytes     *)
(*                that were hashed                                         *)
(***************************************************************************)
EXTENDS Integers, Sequences, FiniteSets, TLC

VARIABLES
    cache,        \* self.cache of each node instance
    cache_limit,  \* self.cache_limit of each node instance
    ncalls,       \* objects the collaborator has created so far
    last,         \* the most recent encode call: inputs, key, outcome, result
    misses,       \* per instance, the keys stored by its misses, in order
    limits,       \* per instance: "fresh", "constant" (one limit so far), "varied"
    live,         \* the node instances the host has constructed
    call_limits   \* the cache_limit values the workflow passes to encode

vars == <<cache, cache_limit, ncalls, last, misses, limits, live, call_limits>>

(* ---------------------------- bounds ----------------------------------- *)

\* largest cache_limit a call passes
MaxLimit == 2
\* successful collaborator calls (objects created) on a single-text node
MaxCalls == 3
\* successful collaborator calls (objects created) on a dual-text node
MaxFluxCalls == 2
\* successful collaborator calls (objects created) in a workflow with two nodes
MaxPairCalls == 2
\* successful collaborator calls (objects created) on a dual-text node whose
\* calls pass out-of-range limits
MaxUnvalidatedFluxCalls == 1

\* declared range of cache_limit (UI metadata, not enforced by encode)
DeclaredMin == 1
DeclaredMax == 100

\* the values a call may pass as cache_limit: encode validates nothing
Limits == 0 .. MaxLimit
\* values outside the declared range: negative, zero, above the maximum
OutOfRange == { DeclaredMin - 2, DeclaredMin - 1, DeclaredMax + 1 }
\* the texts a call of the single-text node may pass
Texts == { <<>>, <<"1">> }
\* the (clip_l, t5xxl) pairs a call of the dual-text node may pass
FluxTexts == { << <<>>, <<>> >>, << <<"1">>, <<>> >>, << <<>>, <<"1">> >> }
\* id(clip) of the live model objects
ModelIds == { 1, 11 }
\* guidance values, in tenths (35 is the default 3.5)
Guidances == { 10, 35 }
\* where the collaborator may raise during a call
Faults == { "none", "tokenize", "encode_from_tokens" }
\* the node instances: two of the single-text class, one of the dual-text class
TextNodes == { "text", "text2" }
FluxNodes == { "flux" }
Nodes == TextNodes \cup FluxNodes
\* the bound on collaborator calls that applies to node n
CallBound(n) ==
    IF Cardinality(live) > 1 THEN MaxPairCalls
    ELSE IF n \in TextNodes THEN MaxCalls
    ELSE IF call_limits = Limits THEN MaxFluxCalls ELSE MaxUnvalidatedFluxCalls

(* --------------------------- Python values ------------------------------ *)

None == <<>>
Some(x) == <<x>>

Digit(d) == <<"0", "1", "2", "3", "4", "5", "6", "7", "8", "9">>[d + 1]

\* str(n) for n >= 0: the decimal digits of n
RECURSIVE str(_)
str(n) == IF n < 10 THEN <<Digit(n)>> ELSE str(n \div 10) \o <<Digit(n % 10)>>

\* ord of the characters in use
Ord(c) ==
    CASE c = "a" -> 97
      [] c = "h" -> 104
      [] c = "s" -> 115
      [] OTHER -> 48 + (CHOOSE d \in 0 .. 9 : Digit(d) = c)

\* str.encode(): the UTF-8 bytes of an ASCII string
str_encode(s) == [i \in 1 .. Len(s) |-> Ord(s[i])]

\* hashlib.sha256(b).hexdigest(), collision-free
sha256_hexdigest(b) == [kind |-> "sha256", bytes |-> b]

\* a key that is a plain string, not a digest
LiteralKey(s) == [kind |-> "literal", bytes |-> str_encode(s)]

get_text_hash(text) == sha256_hexdigest(str_encode(text))

(* ------------------------------ dict ------------------------------------ *)

\* k in d
Has(d, k) == \E i \in 1 .. Len(d) : d[i].key = k

\* d[k]
Get(d, k) == d[CHOOSE i \in 1 .. Len(d) : d[i].key = k].value

\* d[k] = v: an existing key keeps its position, a new key goes last
Put(d, k, v) ==
    IF Has(d, k)
    THEN [i \in 1 .. Len(d) |-> IF d[i].key = k THEN [key |-> k, value |-> v] ELSE d[i]]
    ELSE Append(d, [key |-> k, value |-> v])

\* next(iter(d))
FirstKey(d) == d[1].key

\* del d[k]
Del(d, k) == SelectSeq(d, LAMBDA e : e.key # k)

Keys(d) == { d[i].key : i \in 1 .. Len(d) }

(* --------------------------- collaborator ------------------------------- *)

\* clip.tokenize(text): one tokenization per sub-model, a function of text
tokenize(text) == [l |-> text, t5xxl |-> text]

\* clip.encode_from_tokens(tokens, return_pooled=True, return_dict=True):
\* fresh objects (obj) computed from the model and the tokens
encode_from_tokens(clip, tokens, obj) ==
    [cond          |-> [obj |-> obj, model |-> clip, tokens |-> tokens],
     pooled_output |-> [obj |-> obj, model |-> clip, tokens |-> tokens]]

(* ------------------------ shared pieces of encode ----------------------- *)

\* str(id(clip)): a model object is named by its id
clip_address_of(clip) == str(clip)

\* IsHit with the comparison of the addresses inverted (!= for ==)
IsHitInverted(self_cache, text_hash, clip_address) ==
    /\ Has(self_cache, text_hash)
    /\ Some(clip_address) # Get(self_cache, text_hash).clip_address

\* IsHit without the comparison of the addresses
IsHitKeyOnly(self_cache, text_hash, clip_address) == Has(self_cache, text_hash)

\* "text_hash in self.cache" and "clip_address == self.cache[text_hash]["clip_address"]"
IsHit(self_cache, text_hash, clip_address) ==
    /\ Has(self_cache, text_hash)
    /\ Some(clip_address) = Get(self_cache, text_hash).clip_address

\* NeedsEvict with > for >=
NeedsEvictStrict(cache_len, limit) == cache_len > limit

\* "cache_len >= limit"
NeedsEvict(cache_len, limit) == cache_len >= limit

\* next(iter(d)) on an empty mapping raises StopIteration out of encode
StopIteration(self_cache) ==
    [cache |-> self_cache, outcome |-> "raise", ret |-> None, error |-> Some("StopIteration")]

\* EvictOldest taking the last key of the mapping instead of the first
EvictNewest(self_cache) == Del(self_cache, self_cache[Len(self_cache)].key)

\* "first_key = next(iter(self.cache)); del self.cache[first_key]"
EvictOldest(self_cache) == Del(self_cache, FirstKey(self_cache))

(* ------------------------- CachingCLIPTextEncode ------------------------ *)

DefaultLimit == 10

\* TextInit with an empty mapping instead of the "hash" entry
TextInitEmpty == [cache_limit |-> DefaultLimit, cache |-> <<>>]

TextInit ==
    [cache_limit |-> DefaultLimit,
     cache |-> << [key |-> LiteralKey(<<"h", "a", "s", "h">>),
                   value |-> [clip_address |-> None, text |-> None,
                              cond |-> None, pooled_output |-> None]] >>]

\* TextKey with the number of collaborator calls so far folded into the hash
TextKeySalted(text, clip_address) == get_text_hash(text \o clip_address \o str(ncalls))

\* "text_hash = self.get_text_hash(text + clip_address)"
TextKey(text, clip_address) == get_text_hash(text \o clip_address)

\* TextHit re-inserting the entry it returns, which makes it the newest
\* ("self.cache[text_hash] = self.cache.pop(text_hash)")
TextHitRefresh(self_cache, text_hash) ==
    LET entry == Get(self_cache, text_hash)
    IN  [cache |-> Put(Del(self_cache, text_hash), text_hash, entry), outcome |-> "hit",
         ret |-> Some([cond |-> entry.cond, output |-> entry.pooled_output]),
         error |-> None]

\* the hit path: the stored pair, the cache untouched
TextHit(self_cache, text_hash) ==
    LET entry == Get(self_cache, text_hash)
    IN  [cache |-> self_cache, outcome |-> "hit",
         ret |-> Some([cond |-> entry.cond, output |-> entry.pooled_output]),
         error |-> None]

\* TextMiss storing a None-filled entry under the key before it calls the
\* collaborator
TextMissStoreFirst(self_cache, cache_len, clip, clip_address, text, limit, text_hash, fault, obj) ==
    LET reserved == Put(self_cache, text_hash,
                        [clip_address |-> Some(clip_address), text |-> Some(text),
                         cond |-> None, pooled_output |-> None])
    IN  IF fault # "none"
        THEN [cache |-> reserved, outcome |-> "raise", ret |-> None, error |-> Some(fault)]
        ELSE LET encoded == encode_from_tokens(clip, tokenize(text), obj)
                 cond == encoded.cond
                 output == [pooled_output |-> encoded.pooled_output]
                 stored == Put(reserved, text_hash,
                               [clip_address |-> Some(clip_address), text |-> Some(text),
                                cond |-> Some(cond), pooled_output |-> Some(output)])
             IN  [cache |-> IF NeedsEvict(cache_len, limit)
                            THEN EvictOldest(stored) ELSE stored,
                  outcome |-> "miss",
                  ret |-> Some([cond |-> Some(cond), output |-> Some(output)]),
                  error |-> None]

\* TextMiss evicting before it stores the new entry
TextMissEvictFirst(self_cache, cache_len, clip, clip_address, text, limit, text_hash, fault, obj) ==
    IF fault # "none"
    THEN [cache |-> self_cache, outcome |-> "raise", ret |-> None, error |-> Some(fault)]
    ELSE IF NeedsEvict(cache_len, limit) /\ self_cache = <<>>
    THEN StopIteration(self_cache)
    ELSE LET encoded == encode_from_tokens(clip, tokenize(text), obj)
             cond == encoded.cond
             output == [pooled_output |-> encoded.pooled_output]
             evicted == IF NeedsEvict(cache_len, limit)
                        THEN EvictOldest(self_cache) ELSE self_cache
         IN  [cache |-> Put(evicted, text_hash,
                            [clip_address |-> Some(clip_address), text |-> Some(text),
                             cond |-> Some(cond), pooled_output |-> Some(output)]),
              outcome |-> "miss",
              ret |-> Some([cond |-> Some(cond), output |-> Some(output)]),
              error |-> None]

\* the miss path: collaborator, store, evict, return
TextMiss(self_cache, cache_len, clip, clip_address, text, limit, text_hash, fault, obj) ==
    IF fault # "none"
    THEN [cache |-> self_cache, outcome |-> "raise", ret |-> None, error |-> Some(fault)]
    ELSE LET tokens == tokenize(text)
             encoded == encode_from_tokens(clip, tokens, obj)
             cond == encoded.cond
             output == [pooled_output |-> encoded.pooled_output]
             stored == Put(self_cache, text_hash,
                           [clip_address |-> Some(clip_address), text |-> Some(text),
                            cond |-> Some(cond), pooled_output |-> Some(output)])
         IN  IF NeedsEvict(cache_len, limit) /\ stored = <<>>
             THEN StopIteration(stored)
             ELSE [cache |-> IF NeedsEvict(cache_len, limit)
                             THEN EvictOldest(stored) ELSE stored,
                   outcome |-> "miss",
                   ret |-> Some([cond |-> Some(cond), output |-> Some(output)]),
                   error |-> None]

\* CachingCLIPTextEncode.encode as a function of the instance and the inputs
TextEncode(self_cache, clip, text, limit, fault, obj) ==
    LET cache_len == Len(self_cache)
        clip_address == clip_address_of(clip)
        text_hash == TextKey(text, clip_address)
        r == IF IsHit(self_cache, text_hash, clip_address)
             THEN TextHit(self_cache, text_hash)
             ELSE TextMiss(self_cache, cache_len, clip, clip_address, text,
                           limit, text_hash, fault, obj)
    IN  [cache |-> r.cache, cache_limit |-> limit, outcome |-> r.outcome,
         ret |-> r.ret, error |-> r.error, text_hash |-> text_hash]

(* ----------------------- CachingCLIPTextEncodeFlux ---------------------- *)

FluxInit ==
    [cache_limit |-> DefaultLimit,
     cache |-> << [key |-> LiteralKey(<<"h", "a", "s", "h">>),
                   value |-> [clip_address |-> None, clip_l |-> None, t5xxl |-> None,
                              cond |-> None, pooled_output |-> None,
                              guidance |-> None]] >>]

\* "text_hash = self.get_text_hash(clip_l + t5xxl + clip_address)"
FluxKey(clip_l, t5xxl, clip_address) == get_text_hash(clip_l \o t5xxl \o clip_address)

\* "self.cache[text_hash]["guidance"] = guidance": a key of the entry itself
FluxAdjustGuidance(entry, guidance) == [entry EXCEPT !.guidance = Some(guidance)]

\* the hit path: guidance written to the entry, the stored pair returned
FluxHit(self_cache, text_hash, guidance) ==
    LET entry == FluxAdjustGuidance(Get(self_cache, text_hash), guidance)
    IN  [cache |-> Put(self_cache, text_hash, entry), outcome |-> "hit",
         ret |-> Some([cond |-> entry.cond, output |-> entry.pooled_output]),
         error |-> None]

\* the miss path: collaborator, store, evict, return
FluxMiss(self_cache, cache_len, clip, clip_address, clip_l, t5xxl, guidance, limit, text_hash, fault, obj) ==
    IF fault # "none"
    THEN [cache |-> self_cache, outcome |-> "raise", ret |-> None, error |-> Some(fault)]
    ELSE LET tokens == [tokenize(clip_l) EXCEPT !.t5xxl = tokenize(t5xxl).t5xxl]
             encoded == encode_from_tokens(clip, tokens, obj)
             cond == encoded.cond
             output == [pooled_output |-> encoded.pooled_output, guidance |-> guidance]
             stored == Put(self_cache, text_hash,
                           [clip_address |-> Some(clip_address),
                            clip_l |-> Some(clip_l), t5xxl |-> Some(t5xxl),
                            cond |-> Some(cond), pooled_output |-> Some(output),
                            guidance |-> None])
         IN  IF NeedsEvict(cache_len, limit) /\ stored = <<>>
             THEN StopIteration(stored)
             ELSE [cache |-> IF NeedsEvict(cache_len, limit)
                             THEN EvictOldest(stored) ELSE stored,
                   outcome |-> "miss",
                   ret |-> Some([cond |-> Some(cond), output |-> Some(output)]),
                   error |-> None]

\* CachingCLIPTextEncodeFlux.encode as a function of the instance and the inputs
FluxEncode(self_cache, clip, clip_l, t5xxl, guidance, limit, fault, obj) ==
    LET cache_len == Len(self_cache)
        clip_address == clip_address_of(clip)
        text_hash == FluxKey(clip_l, t5xxl, clip_address)
        r == IF IsHit(self_cache, text_hash, clip_address)
             THEN FluxHit(self_cache, text_hash, guidance)
             ELSE FluxMiss(self_cache, cache_len, clip, clip_address, clip_l, t5xxl,
                           guidance, limit, text_hash, fault, obj)
    IN  [cache |-> r.cache, cache_limit |-> limit, outcome |-> r.outcome,
         ret |-> r.ret, error |-> r.error, text_hash |-> text_hash]

(* ------------------------------- state ---------------------------------- *)

NoCall ==
    [node |-> "none", clip |-> 0, texts |-> <<>>, guidance |-> None,
     text_hash |-> LiteralKey(<<>>), outcome |-> "none", ret |-> None, error |-> None]

Constructed ==
    /\ cache = [n \in Nodes |-> IF n \in TextNodes THEN TextInit.cache ELSE FluxInit.cache]
    /\ cache_limit = [n \in Nodes |->
                        IF n \in TextNodes THEN TextInit.cache_limit ELSE FluxInit.cache_limit]
    /\ ncalls = 0
    /\ last = NoCall
    /\ misses = [n \in Nodes |-> <<>>]
    /\ limits = [n \in Nodes |-> "fresh"]

\* a workflow with one caching node, of either class
Init ==
    /\ Constructed
    /\ \E n \in Nodes : live = {n}
    /\ call_limits = Limits

\* a cache shared by the instances of a class (a class attribute)
StoreCacheShared(c, n, new) ==
    [m \in DOMAIN c |-> IF (m \in TextNodes) = (n \in TextNodes) THEN new ELSE c[m]]

\* self.cache is an attribute of the instance: a call on node n rebinds or
\* mutates the mapping of n only
StoreCache(c, n, new) == [c EXCEPT ![n] = new]

\* the bookkeeping common to both encode actions
Record(n, clip, texts, guidance, limit, fault, r) ==
    /\ r.outcome = "miss" => ncalls < CallBound(n)
    /\ r.outcome = "hit" => fault = "none"
    /\ UNCHANGED <<live, call_limits>>
    /\ cache' = StoreCache(cache, n, r.cache)
    /\ cache_limit' = [cache_limit EXCEPT ![n] = r.cache_limit]
    /\ ncalls' = IF r.outcome = "miss" THEN ncalls + 1 ELSE ncalls
    /\ last' = IF r.outcome = "raise"
               THEN [NoCall EXCEPT !.node = n, !.outcome = "raise", !.error = r.error]
               ELSE [node |-> n, clip |-> clip, texts |-> texts, guidance |-> guidance,
                     text_hash |-> r.text_hash, outcome |-> r.outcome, ret |-> r.ret,
                     error |-> None]
    /\ misses' = IF r.outcome = "miss"
                 THEN [misses EXCEPT ![n] = Append(@, r.text_hash)] ELSE misses
    /\ limits' = [limits EXCEPT ![n] =
                    IF @ = "fresh" \/ (@ = "constant" /\ cache_limit[n] = limit)
                    THEN "constant" ELSE "varied"]

\* one call of CachingCLIPTextEncode.encode
CachingCLIPTextEncode_encode(n, clip, text, limit, fault) ==
    /\ n \in live
    /\ Record(n, clip, <<text>>, None, limit, fault,
              TextEncode(cache[n], clip, text, limit, fault, ncalls + 1))

\* one call of CachingCLIPTextEncodeFlux.encode
CachingCLIPTextEncodeFlux_encode(n, clip, clip_l, t5xxl, guidance, limit, fault) ==
    /\ n \in live
    /\ Record(n, clip, <<clip_l, t5xxl>>, Some(guidance), limit, fault,
              FluxEncode(cache[n], clip, clip_l, t5xxl, guidance, limit, fault, ncalls + 1))

Next ==
    \/ \E n \in TextNodes, clip \in ModelIds, text \in Texts, limit \in call_limits,
          fault \in Faults :
          CachingCLIPTextEncode_encode(n, clip, text, limit, fault)
    \/ \E n \in FluxNodes, clip \in ModelIds, tt \in FluxTexts,
          guidance \in Guidances, limit \in call_limits, fault \in Faults :
          CachingCLIPTextEncodeFlux_encode(n, clip, tt[1], tt[2], guidance, limit, fault)

Spec == Init /\ [][Next]_vars

\* a workflow with two caching nodes, of the same class or of both classes
InitPair ==
    /\ Constructed
    /\ live \in { TextNodes, {"text", "flux"} }
    /\ call_limits = {DeclaredMin}

SpecPair == InitPair /\ [][Next]_vars

\* a workflow with one caching node whose calls pass cache_limit values the
\* declared range excludes (the range is UI metadata, encode does not see it)
InitUnvalidated ==
    /\ Constructed
    /\ \E n \in Nodes : live = {n}
    /\ call_limits = OutOfRange

SpecUnvalidated == InitUnvalidated /\ [][Next]_vars

(* ------------------------ vocabulary of the claims ---------------------- *)

\* the call recorded in l returned normally
IsCall(l) == l.outcome \in {"hit", "miss"}

\* lim is a value the declared input schema allows
InDeclaredRange(lim) == lim \in DeclaredMin .. DeclaredMax

\* the embedding and the auxiliary output the call recorded in l returned
RetCond(l) == l.ret[1].cond
RetOutput(l) == l.ret[1].output

\* the inputs an entry of node n was computed from, and those of a call
EntryInputs(n, e) ==
    IF n \in TextNodes THEN <<e.text, e.clip_address>>
    ELSE <<e.clip_l, e.t5xxl, e.clip_address>>
CallInputs(l) ==
    [i \in 1 .. Len(l.texts) |-> Some(l.texts[i])] \o <<Some(clip_address_of(l.clip))>>

\* the entries of node n stored by a miss (all but the constructor's placeholder)
RealEntries(n) == { i \in 1 .. Len(cache[n]) : cache[n][i].value.clip_address # None }

\* a step that is an encode call on node n returning normally
CallStep(n) == IsCall(last') /\ last'.node = n

(* ------------------------------- C1 ------------------------------------- *)

\* C1 (as claimed): when encode is called twice in a row on a node with the
\* same text input(s) and the same model, both times with a cache_limit in
\* 1..100, the second call is a hit: it returns the embedding the first call
\* returned and the collaborator creates nothing during it.
C1_RepeatedCallIsHit ==
    [][ ( /\ IsCall(last) /\ IsCall(last')
          /\ last'.node = last.node
          /\ last'.clip = last.clip
          /\ last'.texts = last.texts
          /\ InDeclaredRange(cache_limit[last.node])
          /\ InDeclaredRange(cache_limit'[last.node]) )
        => ( /\ last'.outcome = "hit"
             /\ RetCond(last') = RetCond(last)
             /\ ncalls' = ncalls ) ]_vars

(* ------------------------------- C2 ------------------------------------- *)

\* C2 (as claimed): a hit of the dual-text node returns an auxiliary output
\* whose guidance is the guidance of the current call.
C2_HitReturnsCurrentGuidance ==
    (last.outcome = "hit" /\ last.node \in FluxNodes)
        => RetOutput(last)[1].guidance = last.guidance[1]

(* ------------------------------- C3 ------------------------------------- *)

\* C3: in the dual-text node, a call whose (clip_l, t5xxl, model) are those
\* of a cached entry derives that entry's key whatever its guidance, is a
\* hit, makes the collaborator create nothing and leaves the stored
\* embedding of the entry in place.
C3_GuidanceNotInKey ==
    [][ \A n \in FluxNodes : \A i \in 1 .. Len(cache[n]) :
          ( CallStep(n) /\ EntryInputs(n, cache[n][i].value) = CallInputs(last') )
          => ( /\ last'.text_hash = cache[n][i].key
               /\ last'.outcome = "hit"
               /\ ncalls' = ncalls
               /\ Has(cache'[n], cache[n][i].key)
               /\ Get(cache'[n], cache[n][i].key).cond = cache[n][i].value.cond
               /\ RetCond(last') = cache[n][i].value.cond ) ]_vars

\* a hit of the dual-text node whose guidance is not the one the entry was
\* created with
C3_Witness ==
    /\ last.outcome = "hit" /\ last.node \in FluxNodes
    /\ Has(cache[last.node], last.text_hash)
    /\ Get(cache[last.node], last.text_hash).pooled_output[1].guidance # last.guidance[1]

(* ------------------------------- C4 ------------------------------------- *)

\* C4: every call that returns normally returns an embedding the collaborator
\* computed with the model passed to that call, and a hit is answered only
\* from an entry whose stored model identity is that of the current call; so
\* the same text encoded with two models is encoded once by each.
C4_ModelIdentityInvalidation ==
    [][ \A n \in Nodes :
          CallStep(n)
          => ( /\ RetCond(last')[1].model = last'.clip
               /\ last'.outcome = "hit" =>
                    \E i \in 1 .. Len(cache[n]) :
                       /\ cache[n][i].key = last'.text_hash
                       /\ cache[n][i].value.clip_address = Some(clip_address_of(last'.clip))
                       /\ cache[n][i].value.cond = RetCond(last') ) ]_vars

\* a miss for a text that is cached for another model, both entries kept
C4_Witness ==
    /\ last.outcome = "miss"
    /\ Has(cache[last.node], last.text_hash)
    /\ \E i \in RealEntries(last.node) :
          LET e == EntryInputs(last.node, cache[last.node][i].value)
              c == CallInputs(last)
          IN  /\ SubSeq(e, 1, Len(e) - 1) = SubSeq(c, 1, Len(c) - 1)
              /\ e[Len(e)] # c[Len(c)]

(* ------------------------------- C5 ------------------------------------- *)

Max(a, b) == IF a >= b THEN a ELSE b

\* no key occurs twice in the sequence
Distinct(keys) == \A i, j \in 1 .. Len(keys) : i # j => keys[i] # keys[j]

\* C5 (as claimed): after a miss, the cache of the node holds no more
\* entries than the cache_limit (in 1..100) passed to that call, whatever
\* limits earlier calls passed.
C5_SizeWithinLimit ==
    (last.outcome = "miss" /\ InDeclaredRange(cache_limit[last.node]))
        => Len(cache[last.node]) <= cache_limit[last.node]

\* C5 (amended): after a miss the cache holds no more entries than the
\* larger of that call's cache_limit and its size before the call; and on a
\* node whose calls all passed the same cache_limit N >= 1 the size never
\* exceeds N.
C5_SizeWithinLimitOrPrevious ==
    /\ [](\A n \in Nodes :
            (limits[n] = "constant" /\ InDeclaredRange(cache_limit[n]))
                => Len(cache[n]) <= cache_limit[n])
    /\ [][ \A n \in Nodes :
             (CallStep(n) /\ last'.outcome = "miss" /\ ncalls' # ncalls)
                 => Len(cache'[n]) <= Max(cache_limit'[n], Len(cache[n])) ]_vars

\* a miss under a lowered limit: the size is above the limit of the call
C5_Witness ==
    /\ last.outcome = "miss"
    /\ limits[last.node] = "varied"
    /\ InDeclaredRange(cache_limit[last.node])
    /\ Len(cache[last.node]) > cache_limit[last.node]

(* ------------------------------- C6 ------------------------------------- *)

\* C6: on a node whose calls all passed the same cache_limit N >= 1, once
\* N+1 misses with pairwise distinct keys have happened the cache holds at
\* most N entries, the key of the first miss is gone and the keys of the
\* other N misses are present.
C6_BoundedEviction ==
    \A n \in Nodes :
        LET N == cache_limit[n]
            m == misses[n]
        IN  (limits[n] = "constant" /\ N >= 1 /\ Len(m) = N + 1 /\ Distinct(m))
                => /\ Len(cache[n]) <= N
                   /\ ~Has(cache[n], m[1])
                   /\ \A i \in 2 .. N + 1 : Has(cache[n], m[i])

\* three misses with distinct keys under the constant limit 2
C6_Witness ==
    \E n \in Nodes :
        /\ limits[n] = "constant" /\ cache_limit[n] = 2
        /\ Len(misses[n]) = 3 /\ Distinct(misses[n])

(* ------------------------------- C7 ------------------------------------- *)

\* C7 (as claimed): on a node whose calls all passed the same cache_limit N,
\* after k misses with pairwise distinct keys, 1 <= k <= N, the mapping holds
\* exactly k entries.
C7_SizeEqualsMisses ==
    \A n \in Nodes :
        LET N == cache_limit[n]
            k == Len(misses[n])
        IN  (limits[n] = "constant" /\ InDeclaredRange(N) /\ k >= 1 /\ k <= N
                /\ Distinct(misses[n]))
                => Len(cache[n]) = k

\* C7 (amended): under the same conditions the mapping holds exactly k
\* entries stored by misses, next to the "hash" entry of the constructor,
\* which is still there while k < N: its length is k + 1 while k < N and
\* k when k = N.
C7_StoredEntriesEqualMisses ==
    \A n \in Nodes :
        LET N == cache_limit[n]
            k == Len(misses[n])
        IN  (limits[n] = "constant" /\ InDeclaredRange(N) /\ k <= N
                /\ Distinct(misses[n]))
                => /\ Cardinality(RealEntries(n)) = k
                   /\ Len(cache[n]) = IF k < N THEN k + 1 ELSE k

\* encode("a"), encode("a") again, under the limit 2: one miss, one hit
C7_Witness ==
    /\ last.outcome = "hit"
    /\ limits[last.node] = "constant" /\ cache_limit[last.node] = 2
    /\ Len(misses[last.node]) = 1
    /\ Len(cache[last.node]) = 2

(* ------------------------------- C8 ------------------------------------- *)

\* C8: a call in which the collaborator raises hands that error to the
\* caller, returns nothing and leaves the mapping of the node as it was;
\* every other call returns a full [embedding, auxOutput] pair.
C8_NoPartialFailure ==
    [][ \A n \in Nodes :
          /\ (last'.node = n /\ last'.outcome = "raise")
                => /\ cache' = cache
                   /\ last'.ret = None
                   /\ last'.error \in { Some(f) : f \in Faults \ {"none"} }
          /\ CallStep(n)
                => /\ last'.error = None
                   /\ RetCond(last') # None
                   /\ RetOutput(last') # None ]_vars

\* the collaborator raised while the node held entries stored by misses
C8_Witness ==
    /\ last.outcome = "raise"
    /\ RealEntries(last.node) # {}

(* ------------------------------- C9 ------------------------------------- *)

\* C9 (as claimed): a call whose input tuple (text fields and model
\* identity) differs in some field from the tuple a cached entry was
\* computed from derives a key different from the key of that entry.
C9_KeysDistinct ==
    [][ \A n \in Nodes : \A i \in RealEntries(n) :
          (CallStep(n) /\ EntryInputs(n, cache[n][i].value) # CallInputs(last'))
              => cache[n][i].key # last'.text_hash ]_vars

(* ------------------------------- C10 ------------------------------------ *)

C11_HitEntryMatchesCall ==
    last.outcome = "hit"
        => /\ EntryInputs(last.node, Get(cache[last.node], last.text_hash)) = CallInputs(last)
           /\ RetCond(last)[1].model = last.clip
           /\ RetCond(last)[1].tokens =
                 IF last.node \in TextNodes THEN tokenize(last.texts[1])
                 ELSE [tokenize(last.texts[1]) EXCEPT !.t5xxl = tokenize(last.texts[2]).t5xxl]

(* ------------------------------- C12 ------------------------------------ *)

\* C12 (as claimed): whenever the key a call derives is present in the
\* cache, the entry under it stores the model identity of the call, so the
\* call is a hit and the miss path never overwrites an existing key.
C12_KeyPresenceImpliesSameModel ==
    [][ \A n \in Nodes :
          (CallStep(n) /\ Has(cache[n], last'.text_hash))
              => /\ Get(cache[n], last'.text_hash).clip_address
                        = Some(clip_address_of(last'.clip))
                 /\ last'.outcome = "hit" ]_vars

(* ------------------------------- C13 ------------------------------------ *)

\* what a hit must leave alone in an entry of node n: everything but guidance
EntryFrame(n, v) ==
    IF n \in TextNodes THEN v
    ELSE [clip_address |-> v.clip_address, clip_l |-> v.clip_l, t5xxl |-> v.t5xxl,
          cond |-> v.cond,
          pooled_output |-> IF v.pooled_output = None THEN None
                            ELSE Some(v.pooled_output[1].pooled_output)]

\* C13: a hit leaves the keys of the cache, their order and every stored
\* embedding as they were, whatever cache_limit it passes; it changes at
\* most the guidance of the entry it hits, in the dual-text node; and a key
\* leaves the cache only in a step that is a miss on that node.
C13_HitFrame ==
    [][ \A n \in Nodes :
          /\ (last'.node = n /\ last'.outcome = "hit")
                => /\ Len(cache'[n]) = Len(cache[n])
                   /\ \A i \in 1 .. Len(cache[n]) :
                         /\ cache'[n][i].key = cache[n][i].key
                         /\ EntryFrame(n, cache'[n][i].value) = EntryFrame(n, cache[n][i].value)
                         /\ cache'[n][i].key # last'.text_hash
                               => cache'[n][i] = cache[n][i]
                   /\ n \in TextNodes => cache'[n] = cache[n]
          /\ ~(Keys(cache[n]) \subseteq Keys(cache'[n]))
                => (last'.node = n /\ last'.outcome = "miss") ]_vars

\* a hit that passes a cache_limit below the number of entries held
C13_Witness ==
    /\ last.outcome = "hit"
    /\ InDeclaredRange(cache_limit[last.node])
    /\ Len(cache[last.node]) > cache_limit[last.node]

(* ------------------------------- C14 ------------------------------------ *)

\* a step that is a miss on node n
MissStep(n) == last'.node = n /\ last'.outcome = "miss" /\ ncalls' # ncalls

\* C14 (as claimed): a miss with a cache_limit in 1..100 removes one entry if
\* the size at the start of the call is >= that limit and none otherwise, so the
\* size after a miss is the size before plus one (no eviction) or the size
\* before (eviction), never smaller, and it is cache_limit again when the
\* size before was cache_limit.
C14_EvictionTrigger ==
    [][ \A n \in Nodes :
          (MissStep(n) /\ InDeclaredRange(cache_limit'[n]))
          => LET before == Len(cache[n])
                 after == Len(cache'[n])
                 lim == cache_limit'[n]
             IN  /\ after = IF before >= lim THEN before ELSE before + 1
                 /\ after >= before
                 /\ before = lim => after = lim ]_vars

(* ------------------------------- C15 ------------------------------------ *)

\* when an entry was stored: the number of the collaborator call that made
\* its embedding, 0 for the entry of the constructor
StoredAt(v) == IF v.cond = None THEN 0 ELSE v.cond[1].obj

\* the keys of a mapping in iteration order
KeyOrder(d) == [i \in 1 .. Len(d) |-> d[i].key]

\* C15 (as claimed): the entry a miss evicts is the one stored earliest
\* among the entries present when the eviction runs (those kept from before
\* the call and the one the call has just stored), and a hit does not change
\* the order of the keys.
C15_FifoNotLru ==
    [][ \A n \in Nodes :
          /\ MissStep(n)
                => LET present == { StoredAt(cache[n][i].value) :
                                      i \in { j \in 1 .. Len(cache[n]) :
                                                cache[n][j].key # last'.text_hash } }
                                  \cup { ncalls' }
                       kept == { StoredAt(cache'[n][i].value) : i \in 1 .. Len(cache'[n]) }
                   IN  \A a \in present \ kept : \A b \in present : a <= b
          /\ (last'.node = n /\ last'.outcome = "hit")
                => KeyOrder(cache'[n]) = KeyOrder(cache[n]) ]_vars

(* ------------------------------- C16 ------------------------------------ *)

\* C16 (as claimed): after a miss with a cache_limit in 1..100 has returned,
\* the cache holds an entry under the key of the call, with the embedding the
\* call returned.
C16_FreshEntrySurvives ==
    (last.outcome = "miss" /\ InDeclaredRange(cache_limit[last.node]))
        => /\ Has(cache[last.node], last.text_hash)
           /\ Get(cache[last.node], last.text_hash).cond = RetCond(last)

(* ------------------------------- C17 ------------------------------------ *)

Min(a, b) == IF a <= b THEN a ELSE b

\* the last k elements of a sequence
LastOf(s, k) == SubSeq(s, Len(s) - k + 1, Len(s))

\* C17 (as claimed): on a node whose calls all passed the same cache_limit N
\* in 1..100, the keys stored by the last min(N, number of misses) misses,
\* when pairwise distinct, are all present in the cache.
C17_RecentKeysRetained ==
    \A n \in Nodes :
        LET N == cache_limit[n]
            recent == LastOf(misses[n], Min(N, Len(misses[n])))
        IN  (limits[n] = "constant" /\ InDeclaredRange(N) /\ Distinct(recent))
                => \A i \in 1 .. Len(recent) : Has(cache[n], recent[i])

(* ------------------------------- C18 ------------------------------------ *)

\* C18: an encode call on one node, of either class, leaves the cache and the
\* stored limit of every other node as they were, and a hit returns an
\* embedding held in the cache of the node called and in no other node's
\* cache.
C18_InstanceIsolation ==
    [][ \A n \in Nodes :
          /\ n # last'.node
                => (cache'[n] = cache[n] /\ cache_limit'[n] = cache_limit[n])
          /\ (last'.node = n /\ last'.outcome = "hit")
                => /\ Has(cache[n], last'.text_hash)
                   /\ Get(cache[n], last'.text_hash).cond = RetCond(last')
                   /\ \A m \in Nodes \ {n} : \A j \in 1 .. Len(cache[m]) :
                         cache[m][j].value.cond # RetCond(last') ]_vars

\* a hit on one node while another node holds an entry it stored itself
\* under the same key
C18_Witness ==
    /\ last.outcome = "hit"
    /\ \E m \in live \ {last.node} :
          /\ Has(cache[m], last.text_hash)
          /\ Get(cache[m], last.text_hash).clip_address # None
          /\ Len(misses[m]) > 0

(* ------------------------------- C19 ------------------------------------ *)

\* C19: whatever integer a call passes as cache_limit (zero, negative, above
\* 100), encode stores it unexamined and raises nothing of its own, the only
\* errors being those of the collaborator; and when a miss evicts, the
\* mapping holds at least the entry just stored, so the first key exists and
\* exactly one entry is removed.
C19_UnvalidatedLimitHarmless ==
    [][ \A n \in Nodes :
          /\ (last'.node = n /\ last'.outcome = "raise")
                => last'.error \in { Some(f) : f \in Faults \ {"none"} }
          /\ (last'.node = n /\ last' # last)
                => cache_limit'[n] \in call_limits
          /\ (MissStep(n) /\ NeedsEvict(Len(cache[n]), cache_limit'[n]))
                => LET stored == IF Has(cache[n], last'.text_hash)
                                 THEN Len(cache[n]) ELSE Len(cache[n]) + 1
                   IN  stored >= 1 /\ Len(cache'[n]) = stored - 1 ]_vars

\* a miss with a cache_limit below 1 that started on an empty cache: every
\* call of the node passed that limit, its second miss overwrote the entry
\* of the first and evicted it, and the third has returned
C19_Witness ==
    /\ last.outcome = "miss"
    /\ limits[last.node] = "constant"
    /\ cache_limit[last.node] < DeclaredMin
    /\ Len(misses[last.node]) = 3
    /\ misses[last.node][1] = misses[last.node][2]
    /\ cache[last.node] = <<>>

====
